---- MODULE Spec2Model ----
(***************************************************************************)
(* Model of pixel_art_generator.py: configuration validation, palette      *)
(* selection, coarse grid synthesis with symmetry, pixel expansion and     *)
(* the PNG encoder (chunk framing, CRC-32, zlib container).                *)
(***************************************************************************)
EXTENDS Integers, Sequences, FiniteSets, TLC

(* ------------------------------ bounds --------------------------------- *)
MaxSize == 4
MaxGrid == 4
MaxSeed == 1
RngMod == 8
RatioDen == 2
MaxPartial == 1
MaxProbeLen == 3

\* Optional arguments: None is the empty tuple, a given value v is <<v>>.
None == <<>>

Some(v) == <<v>>

(* ------------------------------ palettes ------------------------------- *)
PALETTES ==
  << << <<26, 28, 44>>, <<93, 39, 93>>, <<177, 62, 83>>, <<239, 125, 87>>, <<255, 205, 117>> >>,
     << <<7, 48, 66>>, <<231, 111, 81>>, <<244, 162, 97>>, <<233, 196, 106>>, <<42, 157, 143>> >>,
     << <<40, 42, 54>>, <<68, 71, 90>>, <<189, 147, 249>>, <<255, 85, 85>>, <<80, 250, 123>> >>,
     << <<15, 32, 39>>, <<52, 78, 65>>, <<158, 174, 162>>, <<242, 233, 228>>, <<215, 38, 56>> >>,
     << <<30, 30, 30>>, <<70, 70, 70>>, <<120, 120, 120>>, <<200, 200, 200>>, <<250, 250, 250>> >> >>

(* ------------------------- Python integer arithmetic ------------------- *)
\* a // b for b # 0 (floor division, any signs)
PyFloorDiv(a, b) == IF b > 0 THEN a \div b ELSE (0 - a) \div (0 - b)

\* a % b for b # 0 (result takes the sign of b)
PyMod(a, b) == a - b * PyFloorDiv(a, b)

\* range(n): the indices 0..n-1, empty when n <= 0
PyRange(n) == 0 .. (n - 1)

\* list(reversed(s))
Reversed(s) == [i \in 1..Len(s) |-> s[Len(s) + 1 - i]]

\* s[:n] for n >= 0
Prefix(s, n) == SubSeq(s, 1, IF n < Len(s) THEN n ELSE Len(s))

\* [x] * n, empty when n <= 0
Repeat(x, n) == [i \in 1..(IF n > 0 THEN n ELSE 0) |-> x]

RECURSIVE Concat(_)
\* b"".join(seqs) / list.extend over a sequence of sequences
Concat(ss) == IF Len(ss) = 0 THEN <<>> ELSE Head(ss) \o Concat(Tail(ss))

(* --------------------------- random.Random ----------------------------- *)
\* One step of the generator state (a full-period congruential generator
\* stands for the Mersenne Twister state update).
RngNext(s) == (5 * s + 3) % RngMod

\* rng.random(): value in [0,1) as a numerator over RatioDen
RngRandom(s) == (RngNext(s) * RatioDen) \div RngMod

\* rng.choice(seq): 1-based index of the chosen element
RngChoice(s, n) == (RngNext(s) % n) + 1

\* random.Random(seed): the possible initial states
NewRandomUnseeded(seed) == 0 .. (RngMod - 1)

NewRandom(seed) == IF seed = None THEN 0 .. (RngMod - 1) ELSE {seed[1] % RngMod}

(* ---------------------- PixelArtConfig.__post_init__ ------------------- *)
Symmetries == {"none", "vertical", "horizontal", "quadrant"}

\* Outcome of the dataclass constructor: "ok" or the exception raised.
PostInit(c) ==
  IF c.grid_cells = 0 THEN "ZeroDivisionError"
  ELSE IF PyMod(c.size, c.grid_cells) # 0 THEN "ValueError"
  ELSE IF c.symmetry \notin Symmetries THEN "ValueError"
  ELSE IF ~(0 <= c.background_ratio /\ c.background_ratio <= RatioDen) THEN "ValueError"
  ELSE IF c.symmetry \in {"vertical", "horizontal", "quadrant"} /\ PyMod(c.grid_cells, 2) # 0
       THEN "ValueError"
  ELSE "ok"

(* ----------------------------- _choose_palette ------------------------- *)
\* One consumed rng operation: which call, for which cell (row, col; -1 outside
\* the grid loops), and for rng.random() whether the value was below the ratio.
RngOp(op, r, c, below) == [op |-> op, row |-> r, col |-> c, below |-> below]

\* Python sequence indexing PALETTES[i]: negative indices count from the end.
PyIndex(seq, i) ==
  IF 0 <= i /\ i < Len(seq) THEN [ok |-> TRUE, val |-> seq[i + 1]]
  ELSE IF i < 0 /\ i >= 0 - Len(seq) THEN [ok |-> TRUE, val |-> seq[Len(seq) + i + 1]]
  ELSE [ok |-> FALSE, val |-> <<>>]

\* Result of _choose_palette: the palette, the rng state left behind, the
\* rng operations consumed, or the error raised.
ChoosePalette(s, palette_index) ==
  IF palette_index = None
  THEN [err |-> "none", palette |-> PALETTES[RngChoice(s, Len(PALETTES))],
        rng |-> RngNext(s), ops |-> << RngOp("choice_PALETTES", -1, -1, FALSE) >>]
  ELSE LET r == PyIndex(PALETTES, palette_index[1])
       IN IF r.ok THEN [err |-> "none", palette |-> r.val, rng |-> s, ops |-> <<>>]
          ELSE [err |-> "ValueError", palette |-> <<>>, rng |-> s, ops |-> <<>>]

(* --------------------------- _determine_background --------------------- *)
ColourSum(c) == c[1] + c[2] + c[3]

RECURSIVE MinByLast(_, _, _)
MinByLast(seq, i, best) ==
  IF i > Len(seq) THEN best
  ELSE MinByLast(seq, i + 1, IF ColourSum(seq[i]) <= ColourSum(best) THEN seq[i] ELSE best)

RECURSIVE MinBy(_, _, _)
\* min(seq, key=sum) scanning from position i with the best element so far:
\* a later element replaces it only when its key is strictly smaller.
MinBy(seq, i, best) ==
  IF i > Len(seq) THEN best
  ELSE MinBy(seq, i + 1, IF ColourSum(seq[i]) < ColourSum(best) THEN seq[i] ELSE best)

DetermineBackground(p) == MinBy(p, 2, p[1])

(* ---------------------------- symmetry helpers ------------------------- *)
ApplySymmetryRow(r, symmetry) ==
  IF symmetry = "none" THEN r
  ELSE LET half == Len(r) \div 2
           mirrored == Prefix(r, half)
       IN IF symmetry = "vertical" THEN mirrored \o Reversed(mirrored)
          ELSE IF symmetry = "horizontal" THEN r
          ELSE IF symmetry = "quadrant" THEN mirrored \o Reversed(mirrored)
          ELSE r

\* grid[-(y + 1)] = list(grid[y]) for y in range(len(grid) // 2); the
\* sources are rows of the top half, which the loop never overwrites.
MirrorGridHorizontally(g) ==
  LET half == Len(g) \div 2
  IN [i \in 1..Len(g) |-> IF Len(g) + 1 - i <= half THEN g[Len(g) + 1 - i] ELSE g[i]]

(* ------------------------------ byte strings --------------------------- *)
\* struct.pack(">I", n) for 0 <= n: four big-endian bytes
BE32(n) == << (n \div 16777216) % 256, (n \div 65536) % 256, (n \div 256) % 256, n % 256 >>

RECURSIVE XorBits(_, _)
\* bitwise exclusive or of two naturals
XorBits(a, b) ==
  IF a = 0 THEN b
  ELSE IF b = 0 THEN a
  ELSE ((a + b) % 2) + 2 * XorBits(a \div 2, b \div 2)

\* a ^ b on bytes, tabulated
XorTable == [a \in 0..255 |-> [b \in 0..255 |-> XorBits(a, b)]]

XorByte(a, b) == XorTable[a][b]

\* 32-bit words are kept as four bytes, most significant first
Xor4(x, y) ==
  << XorByte(x[1], y[1]), XorByte(x[2], y[2]), XorByte(x[3], y[3]), XorByte(x[4], y[4]) >>

Shr1(x) == << x[1] \div 2, (x[1] % 2) * 128 + x[2] \div 2,
              (x[2] % 2) * 128 + x[3] \div 2, (x[3] % 2) * 128 + x[4] \div 2 >>

\* the reflected CRC-32 polynomial 0xEDB88320
CrcPoly == <<237, 184, 131, 32>>

RECURSIVE CrcBits(_, _)
CrcBits(c, k) ==
  IF k = 0 THEN c
  ELSE CrcBits(IF c[4] % 2 = 1 THEN Xor4(CrcPoly, Shr1(c)) ELSE Shr1(c), k - 1)

CrcTable == [i \in 0..255 |-> CrcBits(<<0, 0, 0, i>>, 8)]

\* one byte of the table-driven update: table[(c ^ b) & 0xFF] ^ (c >> 8)
Crc32Step(c, b) == Xor4(CrcTable[XorByte(c[4], b)], <<0, c[1], c[2], c[3]>>)

RECURSIVE Crc32Fold(_, _, _, _)
\* the register after the bytes data[lo..hi], in order, starting from c (the
\* test on m only makes the first half's value computed before the second
\* half starts)
Crc32Fold(data, lo, hi, c) ==
  IF lo > hi THEN c
  ELSE IF lo = hi THEN Crc32Step(c, data[lo])
  ELSE LET m == Crc32Fold(data, lo, (lo + hi) \div 2, c)
       IN IF m[1] >= 0 THEN Crc32Fold(data, ((lo + hi) \div 2) + 1, hi, m) ELSE m

\* struct.pack(">I", zlib.crc32(data) & 0xFFFFFFFF)
Crc32(data) ==
  LET c == Crc32Fold(data, 1, Len(data), <<255, 255, 255, 255>>)
  IN << 255 - c[1], 255 - c[2], 255 - c[3], 255 - c[4] >>

\* one byte of Adler-32 on the pair <<a, b>>
Adler32Step(ab, x) == << (ab[1] + x) % 65521, (ab[2] + ((ab[1] + x) % 65521)) % 65521 >>

RECURSIVE Adler32Fold(_, _, _, _)
Adler32Fold(data, lo, hi, ab) ==
  IF lo > hi THEN ab
  ELSE IF lo = hi THEN Adler32Step(ab, data[lo])
  ELSE LET m == Adler32Fold(data, lo, (lo + hi) \div 2, ab)
       IN IF m[1] >= 0 THEN Adler32Fold(data, ((lo + hi) \div 2) + 1, hi, m) ELSE m

\* the Adler-32 trailer of a zlib stream, big-endian
Adler32(data) ==
  LET ab == Adler32Fold(data, 1, Len(data), <<1, 0>>)
  IN << ab[2] \div 256, ab[2] % 256, ab[1] \div 256, ab[1] % 256 >>

\* zlib.compress(raw): a zlib stream whose inflation is raw.  The stream is
\* written with one stored deflate block (header 78 01, BFINAL=1/BTYPE=00,
\* LEN, ~LEN, the bytes, Adler-32); raw is shorter than 65536 bytes here.
ZlibCompress(raw) ==
  LET n == Len(raw)
  IN <<120, 1>> \o <<1, n % 256, n \div 256, 255 - (n % 256), 255 - (n \div 256)>>
     \o raw \o Adler32(raw)

(* ------------------------------- _png_chunk ---------------------------- *)
PngSignature == <<137, 80, 78, 71, 13, 10, 26, 10>>
TagIHDR == <<73, 72, 68, 82>>
TagIDAT == <<73, 68, 65, 84>>
TagIEND == <<73, 69, 78, 68>>

PngChunkCrcOfPayloadOnly(chunk_type, data) ==
  BE32(Len(data)) \o chunk_type \o data \o Crc32(data)

PngChunk(chunk_type, data) ==
  BE32(Len(data)) \o chunk_type \o data \o Crc32(chunk_type \o data)

(* ------------------------------- _write_png ---------------------------- *)
\* struct.pack(">IIBBBBB", width, height, 8, 2, 0, 0, 0); raises struct.error
\* for a negative width or height
IhdrOk(width, height) == width >= 0 /\ height >= 0

Ihdr(width, height) == BE32(width) \o BE32(height) \o <<8, 2, 0, 0, 0>>

\* raw = b"".join(b"\x00" + row for row in rows)
RawScanlines(rows) == Concat([i \in 1..Len(rows) |-> <<0>> \o rows[i]])

\* the byte strings handed to fh.write, in order
PngPieces(width, height, rows) ==
  << PngSignature,
     PngChunk(TagIHDR, Ihdr(width, height)),
     PngChunk(TagIDAT, ZlibCompress(RawScanlines(rows))),
     PngChunk(TagIEND, <<>>) >>

(* ----------------------------- pixel expansion ------------------------- *)
CellSize(c) == PyFloorDiv(c.size, c.grid_cells)

\* expanded_row / row_bytes of one grid row
RowBytes(r, cell_size) == Concat(Concat([i \in 1..Len(r) |-> Repeat(r[i], cell_size)]))

PixelRows(g, cell_size) ==
  Concat([i \in 1..Len(g) |-> Repeat(RowBytes(g[i], cell_size), cell_size)])

(* =============================== state ================================ *)
VARIABLES
  cfg,         \* the arguments of PixelArtConfig(...)
  seed,        \* the seed argument of generate_pixel_art (None or an integer)
  pc,          \* position of the invocation
  err,         \* the exception that ended it, "none" otherwise
  rng,         \* state of the invocation's random.Random
  rngLog,      \* the rng operations the invocation has consumed, in order
  palette,     \* the selected palette
  background,  \* background_colour
  grid,        \* the coarse grid: the rows appended so far
  row,         \* the row being generated
  pixel_rows,  \* the rows handed to _write_png
  pieces,      \* the byte strings _write_png writes, in order
  sink,        \* contents of the destination file
  writes,      \* fh.write calls completed by the invocation
  run,         \* 1 for the first invocation, 2 for the repeated one
  prevOut      \* contents of the file the first invocation left

vars == << cfg, seed, pc, err, rng, rngLog, palette, background, grid, row,
           pixel_rows, pieces, sink, writes, run, prevOut >>

Sizes == (0 - 1) .. MaxSize
GridCells == (0 - 2) .. MaxGrid
SymmetryInputs == Symmetries \cup {"diagonal"}
PaletteIndices ==
  {None} \cup {Some(i) : i \in {0 - Len(PALETTES) - 1, 0 - 1, 0, Len(PALETTES)}}
Ratios == (0 - 1) .. (RatioDen + 1)
Seeds == {None} \cup {Some(i) : i \in 0 .. MaxSeed}

Init ==
  /\ cfg \in [size : Sizes, grid_cells : GridCells, symmetry : SymmetryInputs,
              palette_index : PaletteIndices, background_ratio : Ratios]
  /\ seed \in Seeds
  /\ pc = "new"
  /\ err = "none"
  /\ rng = 0
  /\ rngLog = <<>>
  /\ palette = <<>>
  /\ background = <<>>
  /\ grid = <<>>
  /\ row = <<>>
  /\ pixel_rows = <<>>
  /\ pieces = <<>>
  /\ sink = <<>>
  /\ writes = 0
  /\ run = 1
  /\ prevOut = <<>>

(* ============================== operations ============================= *)
\* PixelArtConfig(...): the dataclass constructor runs __post_init__; when it
\* raises, no configuration exists and generate_pixel_art is never entered.
Construct ==
  /\ pc = "new"
  /\ LET r == PostInit(cfg)
     IN /\ pc' = IF r = "ok" THEN "start" ELSE "rejected"
        /\ err' = IF r = "ok" THEN "none" ELSE r
  /\ UNCHANGED << cfg, seed, rng, rngLog, palette, background, grid, row,
                  pixel_rows, pieces, sink, writes, run, prevOut >>

\* generate_pixel_art, lines 127-130: a fresh rng, then the palette.
Start ==
  /\ pc = "start"
  /\ \E s \in NewRandom(seed) :
       LET r == ChoosePalette(s, cfg.palette_index)
       IN /\ rng' = r.rng
          /\ rngLog' = r.ops
          /\ palette' = r.palette
          /\ err' = r.err
          /\ pc' = IF r.err = "none" THEN "background" ELSE "error"
  /\ UNCHANGED << cfg, seed, background, grid, row, pixel_rows, pieces, sink,
                  writes, run, prevOut >>

\* line 131
Background ==
  /\ pc = "background"
  /\ background' = DetermineBackground(palette)
  /\ pc' = "cells"
  /\ UNCHANGED << cfg, seed, err, rng, rngLog, palette, grid, row, pixel_rows,
                  pieces, sink, writes, run, prevOut >>

GenColsFullRow(c) == c.grid_cells

\* line 138: the number of cells generated per row
GenCols(c) ==
  PyFloorDiv(c.grid_cells, IF c.symmetry \in {"vertical", "quadrant"} THEN 2 ELSE 1)

\* lines 139-142: one pass of the inner loop
GenCell ==
  /\ pc = "cells"
  /\ Len(grid) < cfg.grid_cells
  /\ Len(row) < GenCols(cfg)
  /\ LET y == Len(grid)
         x == Len(row)
         s1 == RngNext(rng)
     IN IF RngRandom(rng) < cfg.background_ratio
        THEN /\ row' = Append(row, background)
             /\ rng' = s1
             /\ rngLog' = Append(rngLog, RngOp("random", y, x, TRUE))
        ELSE /\ row' = Append(row, palette[RngChoice(s1, Len(palette))])
             /\ rng' = RngNext(s1)
             /\ rngLog' = rngLog \o << RngOp("random", y, x, FALSE),
                                       RngOp("choice_palette", y, x, FALSE) >>
  /\ UNCHANGED << cfg, seed, pc, err, palette, background, grid, pixel_rows,
                  pieces, sink, writes, run, prevOut >>

\* lines 143-147: the row is completed and appended
EndRow ==
  /\ pc = "cells"
  /\ Len(grid) < cfg.grid_cells
  /\ ~(Len(row) < GenCols(cfg))
  /\ grid' = Append(grid,
                    IF cfg.symmetry \in {"vertical", "quadrant"}
                    THEN ApplySymmetryRow(row, "vertical")
                    ELSE ApplySymmetryRow(row, cfg.symmetry))
  /\ row' = <<>>
  /\ UNCHANGED << cfg, seed, pc, err, rng, rngLog, palette, background,
                  pixel_rows, pieces, sink, writes, run, prevOut >>

\* lines 149-152: after the last row
MirrorGrid ==
  /\ pc = "cells"
  /\ ~(Len(grid) < cfg.grid_cells)
  /\ grid' = IF cfg.symmetry \in {"horizontal", "quadrant"}
             THEN MirrorGridHorizontally(grid) ELSE grid
  /\ pc' = "expand"
  /\ UNCHANGED << cfg, seed, err, rng, rngLog, palette, background, row,
                  pixel_rows, pieces, sink, writes, run, prevOut >>

\* lines 154-165
Expand ==
  /\ pc = "expand"
  /\ pixel_rows' = PixelRows(grid, CellSize(cfg))
  /\ pc' = "encode"
  /\ UNCHANGED << cfg, seed, err, rng, rngLog, palette, background, grid, row,
                  pieces, sink, writes, run, prevOut >>

\* _write_png, lines 96-101: the header is packed, the rows compressed, and
\* the file opened for writing, which empties it.
Open ==
  /\ pc = "encode"
  /\ IF IhdrOk(cfg.size, cfg.size)
     THEN /\ pieces' = PngPieces(cfg.size, cfg.size, pixel_rows)
          /\ \/ sink' = <<>> /\ pc' = "write" /\ err' = "none"
             \/ sink' = sink /\ pc' = "error" /\ err' = "OSError"
     ELSE /\ pieces' = pieces
          /\ sink' = sink /\ pc' = "error" /\ err' = "struct.error"
  /\ UNCHANGED << cfg, seed, rng, rngLog, palette, background, grid, row,
                  pixel_rows, writes, run, prevOut >>

WriteOverwrites ==
  /\ pc = "write"
  /\ sink' = pieces[writes + 1]
  /\ writes' = writes + 1
  /\ pc' = IF writes + 1 = Len(pieces) THEN "done" ELSE "write"
  /\ UNCHANGED << cfg, seed, err, rng, rngLog, palette, background, grid, row,
                  pixel_rows, pieces, run, prevOut >>

\* lines 102-105: the next fh.write succeeds; after the last one the file is
\* closed and generate_pixel_art returns
Write ==
  /\ pc = "write"
  /\ sink' = sink \o pieces[writes + 1]
  /\ writes' = writes + 1
  /\ pc' = IF writes + 1 = Len(pieces) THEN "done" ELSE "write"
  /\ UNCHANGED << cfg, seed, err, rng, rngLog, palette, background, grid, row,
                  pixel_rows, pieces, run, prevOut >>

\* the next fh.write fails (OSError) after the sink took at most MaxPartial
\* bytes of it
WriteFail ==
  /\ pc = "write"
  /\ \E n \in 0 .. MaxPartial :
       /\ n <= Len(pieces[writes + 1])
       /\ sink' = sink \o Prefix(pieces[writes + 1], n)
  /\ err' = "OSError"
  /\ pc' = "error"
  /\ UNCHANGED << cfg, seed, rng, rngLog, palette, background, grid, row,
                  pixel_rows, pieces, writes, run, prevOut >>

\* a second, independent call of generate_pixel_art with the same arguments
Reinvoke ==
  /\ pc = "done"
  /\ run = 1
  /\ run' = 2
  /\ prevOut' = sink
  /\ pc' = "start"
  /\ rng' = 0
  /\ rngLog' = <<>>
  /\ palette' = <<>>
  /\ background' = <<>>
  /\ grid' = <<>>
  /\ row' = <<>>
  /\ pixel_rows' = <<>>
  /\ pieces' = <<>>
  /\ writes' = 0
  /\ UNCHANGED << cfg, seed, err, sink >>

Next ==
  \/ Construct
  \/ Start
  \/ Background
  \/ GenCell
  \/ EndRow
  \/ MirrorGrid
  \/ Expand
  \/ Open
  \/ Write
  \/ WriteFail
  \/ Reinvoke

Spec == Init /\ [][Next]_vars

(* ------------------- background selection on any palette -------------- *)
\* _determine_background and the grid loops are defined for every non-empty
\* colour sequence; this specification feeds them palettes with equal channel
\* sums besides the five of the table.
ProbeColours == { <<0, 0, 2>>, <<0, 2, 0>>, <<1, 1, 1>> }

ProbePalettes ==
  UNION { [1..n -> ProbeColours] : n \in 1 .. MaxProbeLen }
    \cup { PALETTES[i] : i \in 1 .. Len(PALETTES) }

InitBackground ==
  /\ cfg \in [size : {2}, grid_cells : {2}, symmetry : {"none", "horizontal"},
              palette_index : {None}, background_ratio : 0 .. RatioDen]
  /\ seed = None
  /\ pc = "background"
  /\ err = "none"
  /\ rng \in NewRandom(seed)
  /\ rngLog = <<>>
  /\ palette \in ProbePalettes
  /\ background = <<>>
  /\ grid = <<>>
  /\ row = <<>>
  /\ pixel_rows = <<>>
  /\ pieces = <<>>
  /\ sink = <<>>
  /\ writes = 0
  /\ run = 1
  /\ prevOut = <<>>

NextBackground ==
  \/ Background
  \/ GenCell
  \/ EndRow
  \/ MirrorGrid

SpecBackground == InitBackground /\ [][NextBackground]_vars

(* =============================== claims ================================ *)
\* a positive size and grid_cells, as the data model describes them
PositiveDims == cfg.size > 0 /\ cfg.grid_cells > 0

\* the invocation has left the grid loops and the mirror step behind
GridFinal == pc \in {"expand", "encode", "write", "done"}

\* pixel_rows has been computed and handed to _write_png
RowsHandedOver == pc \in {"encode", "write", "done"}

\* _choose_palette has returned or raised in this invocation
PaletteChosen == pc \in {"background", "cells", "expand", "encode", "write", "done"}

\* C1: a configuration with grid_cells = 0, a negative grid_cells or
\* size % grid_cells # 0 always fails construction with ValueError, and no
\* synthesis (rng draw, grid row, write) ever happens for it.
C1_InvalidGridFailsConstruction ==
  (pc # "new" /\ (cfg.grid_cells <= 0 \/ PyMod(cfg.size, cfg.grid_cells) # 0))
    => /\ pc = "rejected"
       /\ err = "ValueError"
       /\ rngLog = <<>>
       /\ grid = <<>>
       /\ writes = 0
       /\ sink = <<>>

\* C2: with a palette_index given, _choose_palette returns PALETTES[index] for
\* 0 <= index < N without consuming the rng and raises ValueError for every
\* other index, negative ones included; with the index omitted it consumes
\* exactly one rng choice over the palette table.  (Stated for positive size
\* and grid_cells.)
C2_ChoosePaletteContract ==
  LET n == Len(PALETTES)
      pi == cfg.palette_index
      tableChoices == SelectSeq(rngLog, LAMBDA e : e.op = "choice_PALETTES")
  IN PositiveDims =>
       /\ (pc \notin {"new", "rejected", "start"} /\ pi # None /\ (pi[1] < 0 \/ pi[1] >= n))
            => (pc = "error" /\ err = "ValueError" /\ rngLog = <<>>)
       /\ (PaletteChosen /\ pi # None)
            => (pi[1] >= 0 /\ pi[1] < n /\ palette = PALETTES[pi[1] + 1] /\ tableChoices = <<>>)
       /\ (PaletteChosen /\ pi = None)
            => (Len(tableChoices) = 1 /\ rngLog[1].op = "choice_PALETTES")

\* C3: the final coarse grid is grid_cells x grid_cells and mirrored as the
\* symmetry says: vertical, grid[r][c] = grid[r][grid_cells-1-c]; horizontal,
\* grid[r][c] = grid[grid_cells-1-r][c]; quadrant, both.  (Stated for positive
\* size and grid_cells.)
C3_SymmetryInvariants ==
  LET n == cfg.grid_cells
      Defined(r, c) == r + 1 <= Len(grid) /\ c + 1 <= Len(grid[r + 1])
      Cell(r, c) == grid[r + 1][c + 1]
  IN (GridFinal /\ PositiveDims) =>
       /\ cfg.symmetry \in {"vertical", "quadrant"} =>
            \A r \in PyRange(n), c \in PyRange(n) :
              Defined(r, c) /\ Defined(r, n - 1 - c) /\ Cell(r, c) = Cell(r, n - 1 - c)
       /\ cfg.symmetry \in {"horizontal", "quadrant"} =>
            \A r \in PyRange(n), c \in PyRange(n) :
              Defined(r, c) /\ Defined(n - 1 - r, c) /\ Cell(r, c) = Cell(n - 1 - r, c)

\* C4: two invocations with the same configuration and the same given seed
\* leave byte-identical output streams.
C4_Determinism ==
  (run = 2 /\ pc = "done" /\ seed # None) => sink = prevOut

C4_Witness ==
  /\ run = 2 /\ pc = "done" /\ seed # None
  /\ PositiveDims
  /\ cfg.palette_index = None
  /\ \E i \in 1..Len(rngLog) : rngLog[i].op = "choice_palette"
  /\ Len(sink) > Len(PngSignature)

\* C5: the pixel rows handed to the encoder are exactly size rows of 3*size
\* bytes, and the pixel at (y, x) carries the colour of the coarse cell
\* (y div cell_size, x div cell_size).  (Stated for positive size and
\* grid_cells.)
C5_PixelRowsDimensions ==
  LET cs == CellSize(cfg)
  IN (RowsHandedOver /\ PositiveDims) =>
       /\ Len(pixel_rows) = cfg.size
       /\ \A y \in PyRange(cfg.size) :
            /\ Len(pixel_rows[y + 1]) = 3 * cfg.size
            /\ \A x \in PyRange(cfg.size) :
                 /\ cs > 0
                 /\ (y \div cs) + 1 <= Len(grid)
                 /\ (x \div cs) + 1 <= Len(grid[(y \div cs) + 1])
                 /\ SubSeq(pixel_rows[y + 1], 3 * x + 1, 3 * x + 3)
                      = grid[(y \div cs) + 1][(x \div cs) + 1]

\* the complete stream of the running invocation
CompleteStream == Concat(pieces)

IsPrefixOf(p, s) == Len(p) <= Len(s) /\ p = SubSeq(s, 1, Len(p))

\* C6 as stated: one write per invocation, and the sink never holds a strict
\* prefix of the encoded stream: it holds nothing or a complete stream.
\* (Stated for positive size and grid_cells.)
C6_SingleWriteAllOrNothing ==
  PositiveDims =>
    /\ writes <= 1
    /\ \/ sink = <<>>
       \/ pieces # <<>> /\ sink = CompleteStream
       \/ run = 2 /\ sink = prevOut

\* C6 amended: the encoder writes the signature and the three chunks with four
\* writes in one pass; the sink holds at every point a prefix of the complete
\* stream (or still the previous invocation's file before the open), and holds
\* the complete stream when the invocation has returned.
C6_SinkHoldsPrefix ==
  /\ writes <= 4
  /\ \/ pieces # <<>> /\ IsPrefixOf(sink, CompleteStream)
     \/ pieces = <<>> /\ sink = <<>>
     \/ run = 2 /\ writes = 0 /\ sink = prevOut
  /\ pc = "done" => (writes = 4 /\ sink = CompleteStream)
  /\ (pc = "write" /\ writes > 0) => Len(sink) < Len(CompleteStream)

C6_Witness ==
  /\ pc = "error" /\ err = "OSError" /\ writes = 2
  /\ PositiveDims
  /\ Len(sink) > Len(pieces[1]) + Len(pieces[2])
  /\ Len(sink) < Len(CompleteStream)

\* the big-endian number in four bytes
U32(b) == ((b[1] * 256 + b[2]) * 256 + b[3]) * 256 + b[4]

\* the chunk starting after the first off bytes of s, read by its length field
ChunkAt(s, off) ==
  LET len == U32(SubSeq(s, off + 1, off + 4))
  IN [len |-> len,
      tag |-> SubSeq(s, off + 5, off + 8),
      payload |-> SubSeq(s, off + 9, off + 8 + len),
      crc |-> SubSeq(s, off + 9 + len, off + 12 + len),
      next |-> off + 12 + len]

Framed(s, off) ==
  /\ off + 12 <= Len(s)
  /\ ChunkAt(s, off).next <= Len(s)
  /\ ChunkAt(s, off).crc = Crc32(ChunkAt(s, off).tag \o ChunkAt(s, off).payload)

\* C7: a successful run has emitted the signature, IHDR, one IDAT and an
\* empty IEND, in this order and once each; each chunk is length, tag,
\* payload, CRC-32 of tag ++ payload, the length being the payload's length.
C7_ChunkFraming ==
  pc = "done" =>
    /\ writes = 4
    /\ SubSeq(sink, 1, 8) = PngSignature
    /\ Framed(sink, 8)
    /\ LET c1 == ChunkAt(sink, 8)
       IN /\ c1.tag = TagIHDR
          /\ c1.payload = Ihdr(cfg.size, cfg.size)
          /\ Framed(sink, c1.next)
          /\ LET c2 == ChunkAt(sink, c1.next)
             IN /\ c2.tag = TagIDAT
                /\ c2.payload = ZlibCompress(RawScanlines(pixel_rows))
                /\ Framed(sink, c2.next)
                /\ LET c3 == ChunkAt(sink, c2.next)
                   IN /\ c3.tag = TagIEND
                      /\ c3.len = 0
                      /\ c3.next = Len(sink)

C7_Witness ==
  /\ pc = "done" /\ run = 1
  /\ cfg.size > 0 /\ Len(pixel_rows) = cfg.size
  /\ Len(sink) > 8 + 25 + 12 + 12

\* C8 as stated: an odd grid_cells with symmetry vertical, horizontal or
\* quadrant is rejected with ValueError, an odd grid_cells with symmetry none
\* is accepted, and the mirroring steps only see rows and grids of even length.
\* (Stated for positive size and grid_cells.)
C8_OddGridRejected ==
  LET odd == PyMod(cfg.grid_cells, 2) # 0
  IN PositiveDims =>
     /\ (pc # "new" /\ odd /\ cfg.symmetry \in {"vertical", "horizontal", "quadrant"})
          => (pc = "rejected" /\ err = "ValueError")
     /\ (pc # "new" /\ odd /\ cfg.symmetry = "none"
           /\ PyMod(cfg.size, cfg.grid_cells) = 0
           /\ 0 <= cfg.background_ratio /\ cfg.background_ratio <= RatioDen)
          => pc # "rejected"
     /\ (pc = "cells" /\ Len(grid) < cfg.grid_cells /\ ~(Len(row) < GenCols(cfg))
           /\ cfg.symmetry \in {"vertical", "quadrant"})
          => Len(row) % 2 = 0
     /\ (pc = "cells" /\ ~(Len(grid) < cfg.grid_cells)
           /\ cfg.symmetry \in {"horizontal", "quadrant"})
          => Len(grid) % 2 = 0

\* C9: after the optional palette choice the rng is consumed row by row, and
\* in each row column by column over grid_cells/2 columns (vertical, quadrant)
\* or grid_cells columns: one uniform draw, then one palette choice exactly
\* when the draw is not below background_ratio; mirroring consumes nothing.
C9_RngOrder ==
  LET n == IF cfg.grid_cells > 0 THEN cfg.grid_cells ELSE 0
      w == IF cfg.symmetry \in {"vertical", "quadrant"} THEN n \div 2 ELSE n
      skip == IF cfg.palette_index = None THEN 1 ELSE 0
      body == SubSeq(rngLog, skip + 1, Len(rngLog))
      draws == SelectSeq(body, LAMBDA e : e.op = "random")
  IN PaletteChosen =>
       /\ Len(rngLog) >= skip
       /\ \A i \in 1..Len(body) : body[i].op \in {"random", "choice_palette"}
       /\ \A k \in 1..Len(draws) :
            /\ w > 0
            /\ draws[k].row = (k - 1) \div w
            /\ draws[k].col = (k - 1) % w
            /\ draws[k].row < n
       /\ \A i \in 1..Len(body) :
            /\ (body[i].op = "random" /\ ~body[i].below) =>
                 /\ i < Len(body)
                 /\ body[i + 1] = RngOp("choice_palette", body[i].row, body[i].col, FALSE)
            /\ (body[i].op = "random" /\ body[i].below /\ i < Len(body)) =>
                 body[i + 1].op = "random"
            /\ body[i].op = "choice_palette" =>
                 (i > 1 /\ body[i - 1].op = "random" /\ ~body[i - 1].below)
       /\ GridFinal => Len(draws) = n * w
       /\ (cfg.background_ratio = 0) => \A k \in 1..Len(draws) : ~draws[k].below
       /\ (cfg.background_ratio = RatioDen) => \A k \in 1..Len(draws) : draws[k].below

C9_Witness ==
  /\ pc = "done"
  /\ PositiveDims
  /\ cfg.symmetry = "quadrant" /\ cfg.grid_cells = 4
  /\ cfg.palette_index = None
  /\ \E i \in 1..Len(rngLog) : rngLog[i].op = "random" /\ rngLog[i].below
  /\ \E i \in 1..Len(rngLog) : rngLog[i].op = "choice_palette"

\* C10: the background is a palette member of minimal channel sum, the one of
\* smallest index among those of minimal sum; every colour stored in the
\* coarse grid is a palette member; palette 0 gives (26, 28, 44).
C10_BackgroundMinimal ==
  LET members == { palette[i] : i \in 1..Len(palette) }
  IN /\ background # <<>> =>
          \E i \in 1..Len(palette) :
            /\ background = palette[i]
            /\ \A j \in 1..Len(palette) : ColourSum(palette[j]) >= ColourSum(palette[i])
            /\ \A j \in 1..(i - 1) : ColourSum(palette[j]) > ColourSum(palette[i])
     /\ \A i \in 1..Len(row) : row[i] \in members
     /\ \A r \in 1..Len(grid) : \A c \in 1..Len(grid[r]) : grid[r][c] \in members
     /\ (background # <<>> /\ palette = PALETTES[1]) => background = <<26, 28, 44>>

C10_Witness ==
  /\ pc = "expand"
  /\ \E i, j \in 1..Len(palette) :
       /\ i < j /\ palette[i] # palette[j]
       /\ ColourSum(palette[i]) = ColourSum(palette[j])
       /\ background = palette[i]
  /\ \E r \in 1..Len(grid) : \E c \in 1..Len(grid[r]) : grid[r][c] = background
  /\ \E r \in 1..Len(grid) : \E c \in 1..Len(grid[r]) : grid[r][c] # background

====
